---- MODULE Spec2Model ----
(***************************************************************************)
(* Model of app/main.py: the conversation log kept in one JSON file and    *)
(* the HTTP handlers that read and rewrite it.                             *)
(*                                                                         *)
(* Text that the code strips is a sequence of one-character strings;       *)
(* prompts are opaque strings.  A value that may be Python None is a       *)
(* sequence of length 0 (None) or 1 (the value).  datetime.now() is a      *)
(* logical clock that advances with every record constructed.              *)
(***************************************************************************)
EXTENDS Integers, Sequences, FiniteSets, TLC

VARIABLES storage, clock, req, resp, pc, conversations, conversation, result, sched

vars == <<storage, clock, req, resp, pc, conversations, conversation, result, sched>>

(***************************************************************************)
(* Bounds of the model.                                                    *)
(***************************************************************************)
\* add_conversation calls made after the initial state (Spec, SpecConc)
MaxAdds == 2
\* limit, offset and id range over 0..MaxArg and values around the cap
MaxArg == 1
\* add_conversation calls of the failure-free run from an empty log (SpecSeq)
MaxSeq == 103

(***************************************************************************)
(* Program constants.                                                      *)
(***************************************************************************)
MaxConversations == 100
DefaultLimit == 20
DefaultOffset == 0
DefaultPrompt == "Hello, how are you?"
MODEL_NAME == "llama3.2:3b"

None == <<>>
Some(x) == <<x>>

Min(a, b) == IF a < b THEN a ELSE b
Max(a, b) == IF a > b THEN a ELSE b

(***************************************************************************)
(* Python helpers.                                                         *)
(***************************************************************************)
IsSpace(c) == c \in {" ", "\n", "\t"}

RECURSIVE LStrip(_)
LStrip(s) == IF s # <<>> /\ IsSpace(Head(s)) THEN LStrip(Tail(s)) ELSE s

RECURSIVE RStrip(_)
RStrip(s) ==
    IF s # <<>> /\ IsSpace(s[Len(s)]) THEN RStrip(SubSeq(s, 1, Len(s) - 1)) ELSE s

\* str.strip()
Strip(s) == RStrip(LStrip(s))

\* a slice bound of s[start:stop], clamped as Python clamps it
SliceIndex(i, n) == IF i < 0 THEN Max(i + n, 0) ELSE Min(i, n)

\* s[start:stop]
Slice(s, start, stop) ==
    LET a == SliceIndex(start, Len(s))
        b == SliceIndex(stop, Len(s))
    IN  IF a < b THEN SubSeq(s, a + 1, b) ELSE <<>>

(***************************************************************************)
(* JSON values held by the storage file.  An element of a list is a        *)
(* conversation record (kind "record") or anything else (kind "scalar": a  *)
(* number, a string, an object without "id").  A dict is given by its      *)
(* keys, which are scalars.                                                *)
(***************************************************************************)
Conversation(id, ts, prompt, response) ==
    [kind |-> "record", id |-> id, timestamp |-> ts, prompt |-> prompt,
     response |-> response, model |-> MODEL_NAME,
     response_length |-> Len(response)]

Scalar ==
    [kind |-> "scalar", id |-> 0, timestamp |-> 0, prompt |-> "",
     response |-> <<>>, model |-> "", response_length |-> 0]

JsonList(items) == [type |-> "list", items |-> items]
JsonDict == [type |-> "dict", items |-> <<Scalar>>]
JsonNull == [type |-> "null", items |-> <<>>]

\* states of /data/conversations.json
Absent == [kind |-> "absent", json |-> JsonList(<<>>)]
Unreadable == [kind |-> "unreadable", json |-> JsonList(<<>>)]
Invalid == [kind |-> "invalid", json |-> JsonList(<<>>)]
JsonFile(v) == [kind |-> "json", json |-> v]

(***************************************************************************)
(* Conversation log.                                                       *)
(***************************************************************************)
\* load_conversations: the parsed document, whatever it is, or [] when the
\* file is missing or reading or parsing it raises
load_conversations(st) ==
    IF st.kind = "json" THEN st.json ELSE JsonList(<<>>)

NewIdFromZero(convs) == Len(convs)

\* id of a new record (line 46)
NewId(convs) == Len(convs) + 1

NoRenumber(convs) == convs

\* for i, conv in enumerate(conversations): conv["id"] = i + 1
Renumber(convs) == [i \in 1..Len(convs) |-> [convs[i] EXCEPT !.id = i]]

\* lines 57-61
Trim(convs) ==
    IF Len(convs) > MaxConversations
    THEN Renumber(Slice(convs, -MaxConversations, Len(convs)))
    ELSE convs

SaveAppending(st, convs, outcome) ==
    CASE st.kind = "unreadable" \/ outcome = "open_fails" ->
             [storage |-> st, ok |-> FALSE]
      [] outcome = "write_fails" ->
             [storage |-> Invalid, ok |-> FALSE]
      [] OTHER ->
             [storage |-> JsonFile(JsonList(Trim(
                  Append(load_conversations(st).items, convs[Len(convs)])))),
              ok |-> TRUE]

\* save_conversations: open(..., 'w') truncates the file, json.dump writes
\* it; any exception is swallowed and reported as False
save_conversations(st, convs, outcome) ==
    CASE st.kind = "unreadable" \/ outcome = "open_fails" ->
             [storage |-> st, ok |-> FALSE]
      [] outcome = "write_fails" ->
             [storage |-> Invalid, ok |-> FALSE]
      [] OTHER ->
             [storage |-> JsonFile(JsonList(convs)), ok |-> TRUE]

SaveOutcomes == {"ok", "open_fails", "write_fails"}

\* add_conversation up to the save (lines 43-61): the list to write and the
\* new record as it stands in that list; raised when the loaded document is
\* not a list (len() or .append fails) or renumbering meets a non-object
Prepare(st, ts, prompt, response) ==
    LET loaded == load_conversations(st)
        appended == Append(loaded.items,
                           Conversation(NewId(loaded.items), ts, prompt, response))
        trimmed == Trim(appended)
        raises == \/ loaded.type # "list"
                  \/ /\ Len(appended) > MaxConversations
                     /\ \E i \in 1..Len(trimmed) : trimmed[i].kind # "record"
    IN  IF raises
        THEN [raised |-> TRUE, conversations |-> <<>>, conversation |-> None]
        ELSE [raised |-> FALSE, conversations |-> trimmed,
              conversation |-> Some(trimmed[Len(trimmed)])]

\* add_conversation (lines 41-68)
add_conversation(st, ts, prompt, response, outcome) ==
    LET p == Prepare(st, ts, prompt, response)
        s == save_conversations(st, p.conversations, outcome)
    IN  IF p.raised
        THEN [raised |-> TRUE, storage |-> st, conversation |-> None]
        ELSE [raised |-> FALSE, storage |-> s.storage,
              conversation |-> IF s.ok THEN p.conversation ELSE None]

\* the log that n failure-free appends to a missing file leave (the
\* invariant HistoryReached of SpecSeq), the k-th made at instant base + k
History(n, base) ==
    IF n = 0 THEN Absent
    ELSE JsonFile(JsonList([k \in 1..n |->
             Conversation(k, base + k, DefaultPrompt, <<"a", " ", "a">>)]))

(***************************************************************************)
(* Requests and responses.                                                 *)
(***************************************************************************)
NoReq ==
    [op |-> "none", body |-> [key |-> FALSE, str |-> FALSE, value |-> ""],
     backend |-> [status |-> 0, payload |-> "none", text |-> None],
     save |-> "ok", limit |-> None, offset |-> None, id |-> 0]

NoResp ==
    [op |-> "none", code |-> 0, status |-> "none", message |-> "",
     generated_text |-> None, conversation_id |-> None,
     backend_prompt |-> None, total |-> 0, limit |-> 0, offset |-> 0,
     conversations |-> <<>>, conversation |-> None]

\* JSON bodies of POST /generate: no "prompt" key, "prompt": null, a string
Bodies ==
    {[key |-> FALSE, str |-> FALSE, value |-> ""],
     [key |-> TRUE, str |-> FALSE, value |-> ""],
     [key |-> TRUE, str |-> TRUE, value |-> ""],
     [key |-> TRUE, str |-> TRUE, value |-> "Hi"]}

BackendTexts == {<<" ">>, <<"\n", "a", " ", "a", " ">>}

\* outcomes of requests.post: a status with a JSON object (with or without
\* "response"), a 200 whose body is not JSON, an error status, or no reply
\* at all (status 0: timeout, connection error)
BackendReplies ==
    {[status |-> 200, payload |-> "object", text |-> Some(t)] : t \in BackendTexts}
    \cup {[status |-> 200, payload |-> "object", text |-> None],
          [status |-> 200, payload |-> "malformed", text |-> None],
          [status |-> 500, payload |-> "object", text |-> None],
          [status |-> 0, payload |-> "none", text |-> None]}

PromptOrDefault(body) ==
    IF body.key /\ body.value # "" THEN body.value ELSE DefaultPrompt

\* data.get('prompt', 'Hello, how are you?') (line 87)
PromptOf(body) == IF body.key THEN body.value ELSE DefaultPrompt

\* result.get("response", "") (line 106)
ResponseOf(reply) == IF reply.text = None THEN <<>> ELSE reply.text[1]

ErrorResp(op, code, status, message) ==
    [NoResp EXCEPT !.op = op, !.code = code, !.status = status,
                   !.message = message]

\* what Flask answers when a view raises: its own 500 page
Unhandled(op) == ErrorResp(op, 500, "unhandled", "Internal Server Error")

BackendAnswered(reply) == reply.status # 0

\* response.status_code == 200 (line 104)
BackendOk(reply) == reply.status = 200

\* the success response of generate_text (lines 113-118); conv is what
\* add_conversation returned
Success(prompt, text, conv) ==
    [NoResp EXCEPT !.op = "generate", !.code = 200, !.status = "success",
                   !.generated_text = Some(text),
                   !.backend_prompt = Some(prompt),
                   !.conversation_id =
                       IF conv = None THEN None ELSE Some(conv[1].id)]

\* generate_text (lines 82-130): the response, the storage it leaves and
\* whether add_conversation was called
generate_text(st, ts, body, reply, outcome) ==
    LET prompt == PromptOf(body)
        text == Strip(ResponseOf(reply))
        added == add_conversation(st, ts, prompt, text, outcome)
        failed(sent) == [storage |-> st, called |-> FALSE,
                         resp |-> [ErrorResp("generate", 500, "error", "exception")
                                       EXCEPT !.backend_prompt = sent]]
    IN  CASE body.key /\ ~body.str -> failed(None)
          [] reply.status = 0 -> failed(Some(prompt))
          [] ~BackendOk(reply) ->
                 [storage |-> st, called |-> FALSE,
                  resp |-> [ErrorResp("generate", 500, "error", "Ollama API error")
                                EXCEPT !.backend_prompt = Some(prompt)]]
          [] reply.payload = "malformed" -> failed(Some(prompt))
          [] added.raised ->
                 [failed(Some(prompt)) EXCEPT !.called = TRUE]
          [] OTHER ->
                 [storage |-> added.storage, called |-> TRUE,
                  resp |-> Success(prompt, text, added.conversation)]

\* health (lines 70-80)
health(st) ==
    LET loaded == load_conversations(st)
    IN  IF loaded.type = "null" THEN Unhandled("health")
        ELSE [NoResp EXCEPT !.op = "health", !.code = 200,
                            !.status = "healthy", !.total = Len(loaded.items)]

\* request.args.get(name, type=int, default=d)
ArgOf(arg, d) == IF arg = None THEN d ELSE arg[1]

PageUpToLimit(items, offset, limit) == Slice(items, offset, limit)

\* conversations[offset:offset + limit] (line 157)
Page(items, offset, limit) == Slice(items, offset, offset + limit)

\* get_conversations (lines 147-165)
get_conversations(st, limitArg, offsetArg) ==
    LET loaded == load_conversations(st)
        limit == ArgOf(limitArg, DefaultLimit)
        offset == ArgOf(offsetArg, DefaultOffset)
    IN  IF loaded.type # "list" THEN Unhandled("get_conversations")
        ELSE [NoResp EXCEPT
                 !.op = "get_conversations", !.code = 200,
                 !.status = "success", !.total = Len(loaded.items),
                 !.limit = limit, !.offset = offset,
                 !.conversations = Page(loaded.items, offset, limit)]

ScanByIndex(items, id) ==
    IF id < Len(items) /\ items[id + 1].kind = "record"
    THEN [end |-> "found", conv |-> Some(items[id + 1])]
    ELSE [end |-> "none", conv |-> None]

\* the loop of get_conversation (lines 172-177): it stops at the first
\* element that has no "id" (conv["id"] raises) or whose id matches
\* ("found"), and falls through when there is none ("none")
Scan(items, id) ==
    LET stops == {i \in 1..Len(items) :
                     items[i].kind # "record" \/ items[i].id = id}
        first == CHOOSE i \in stops : \A j \in stops : i <= j
    IN  IF stops = {} THEN [end |-> "none", conv |-> None]
        ELSE IF items[first].kind # "record"
        THEN [end |-> "raise", conv |-> None]
        ELSE [end |-> "found", conv |-> Some(items[first])]

\* get_conversation (lines 167-182)
get_conversation(st, id) ==
    LET loaded == load_conversations(st)
        hit == Scan(loaded.items, id)
    IN  IF loaded.type = "null" \/ hit.end = "raise"
        THEN Unhandled("get_conversation")
        ELSE IF hit.end = "found"
        THEN [NoResp EXCEPT !.op = "get_conversation", !.code = 200,
                            !.status = "success", !.conversation = hit.conv]
        ELSE ErrorResp("get_conversation", 404, "error", "not found")

(***************************************************************************)
(* Initial states: the storage file as the program finds it.  The program  *)
(* itself leaves a list of records, or a partial document after a failed   *)
(* write; the file is also open to whoever else writes /data.              *)
(***************************************************************************)
InitLens == {0, MaxConversations - 1, MaxConversations}

Histories == {History(n, -n) : n \in InitLens}

ForeignDocuments ==
    {JsonFile(JsonDict), JsonFile(JsonNull),
     JsonFile(JsonList(<<Conversation(1, -1, DefaultPrompt, <<"a", " ", "a">>), Scalar>>))}

Procs == {"A", "B"}

InitLocals ==
    /\ pc = [p \in Procs |-> "idle"]
    /\ conversations = [p \in Procs |-> <<>>]
    /\ conversation = [p \in Procs |-> None]
    /\ result = [p \in Procs |-> NoResp]
    /\ sched = <<>>

Init ==
    /\ storage \in Histories \cup {Unreadable, Invalid} \cup ForeignDocuments
    /\ clock = 0
    /\ req = NoReq
    /\ resp = NoResp
    /\ InitLocals

(***************************************************************************)
(* One action per request, handled to completion.                          *)
(***************************************************************************)
GenerateWith(bodies, replies, outcomes, maxClock) ==
    /\ clock < maxClock
    /\ \E body \in bodies, reply \in replies, outcome \in outcomes :
          LET g == generate_text(storage, clock + 1, body, reply, outcome)
          IN  /\ storage' = g.storage
              /\ clock' = IF g.called THEN clock + 1 ELSE clock
              /\ req' = [NoReq EXCEPT !.op = "generate", !.body = body,
                                      !.backend = reply, !.save = outcome]
              /\ resp' = g.resp
    /\ UNCHANGED <<pc, conversations, conversation, result, sched>>

Generate == GenerateWith(Bodies, BackendReplies, SaveOutcomes, MaxAdds)

Health ==
    /\ req' = [NoReq EXCEPT !.op = "health"]
    /\ resp' = health(storage)
    /\ UNCHANGED <<storage, clock, pc, conversations, conversation, result, sched>>

ArgValues == 0..MaxArg

OffsetValues == ArgValues \cup {MaxConversations}

Args(values) == {None} \cup {Some(v) : v \in values}

GetConversations ==
    /\ \E limit \in Args(ArgValues), offset \in Args(OffsetValues) :
          /\ req' = [NoReq EXCEPT !.op = "get_conversations",
                                  !.limit = limit, !.offset = offset]
          /\ resp' = get_conversations(storage, limit, offset)
    /\ UNCHANGED <<storage, clock, pc, conversations, conversation, result, sched>>

\* <int:conversation_id> admits the non-negative integers
Ids == 0..MaxArg \cup {MaxConversations, MaxConversations + 1}

GetConversation ==
    /\ \E id \in Ids :
          /\ req' = [NoReq EXCEPT !.op = "get_conversation", !.id = id]
          /\ resp' = get_conversation(storage, id)
    /\ UNCHANGED <<storage, clock, pc, conversations, conversation, result, sched>>

Next == Generate \/ Health \/ GetConversations \/ GetConversation

Spec == Init /\ [][Next]_vars

(***************************************************************************)
(* The failure-free run from an empty log: every request is a POST         *)
(* /generate that the backend answers and whose record is written.         *)
(***************************************************************************)
InitSeq ==
    /\ storage = Absent
    /\ clock = 0
    /\ req = NoReq
    /\ resp = NoResp
    /\ InitLocals

GenerateSeq ==
    GenerateWith({b \in Bodies : ~b.key},
                 {r \in BackendReplies : r.text = Some(<<"\n", "a", " ", "a", " ">>)},
                 {"ok"}, MaxSeq)

NextSeq == GenerateSeq

SpecSeq == InitSeq /\ [][NextSeq]_vars

(***************************************************************************)
(* Concurrent POST /generate requests whose backend call has returned 200: *)
(* each request thread runs add_conversation in two steps, the load with   *)
(* the construction of the list (lines 43-61) and the save (lines 63-68).  *)
(* Nothing orders the steps of different requests.                         *)
(***************************************************************************)
InitConc ==
    /\ storage \in Histories
    /\ clock = 0
    /\ req = NoReq
    /\ resp = NoResp
    /\ InitLocals

ConcPrompts == {"", "Hi"}

ConcText == <<"a">>

LoadStep(p) ==
    /\ pc[p] = "idle"
    /\ clock < MaxAdds
    /\ \E prompt \in ConcPrompts :
          LET prep == Prepare(storage, clock + 1, prompt, ConcText)
          IN  /\ ~prep.raised
              /\ conversations' = [conversations EXCEPT ![p] = prep.conversations]
              /\ conversation' = [conversation EXCEPT ![p] = prep.conversation]
    /\ pc' = [pc EXCEPT ![p] = "save"]
    /\ clock' = clock + 1
    /\ sched' = Append(sched, <<p, "load">>)
    /\ UNCHANGED <<storage, req, resp, result>>

SaveStep(p) ==
    /\ pc[p] = "save"
    /\ \E outcome \in SaveOutcomes :
          LET s == save_conversations(storage, conversations[p], outcome)
              conv == IF s.ok THEN conversation[p] ELSE None
          IN  /\ storage' = s.storage
              /\ result' = [result EXCEPT ![p] =
                               Success(conversation[p][1].prompt, ConcText, conv)]
              /\ sched' = Append(sched, <<p, IF s.ok THEN "saved" ELSE "failed">>)
    /\ pc' = [pc EXCEPT ![p] = "idle"]
    /\ UNCHANGED <<clock, req, resp, conversations, conversation>>

NextConc == \E p \in Procs : LoadStep(p) \/ SaveStep(p)

SpecConc == InitConc /\ [][NextConc]_vars

(***************************************************************************)
(* Properties.                                                             *)
(***************************************************************************)
\* what a load of the storage file yields now
Items == load_conversations(storage).items

\* the storage file holds a JSON list of conversation records
IsHistory(st) ==
    /\ st.kind = "json"
    /\ st.json.type = "list"
    /\ \A i \in 1..Len(st.json.items) : st.json.items[i].kind = "record"

\* every record's id is its 1-based position
DenseIds(items) == \A i \in 1..Len(items) : items[i].id = i

\* The closed form History is what the failure-free run produces.
HistoryReached ==
    clock <= MaxConversations =>
        storage = History(clock, 0)

\* C1: after N <= 100 successful appends to an empty history, made one
\* after the other, the stored history has exactly N records, the record
\* at position k is the one the k-th call created, and its id is k.
C1Appends ==
    clock <= MaxConversations =>
        /\ Len(Items) = clock
        /\ \A k \in 1..clock :
              /\ Items[k].kind = "record"
              /\ Items[k].timestamp = k
              /\ Items[k].id = k

C1Witness ==
    /\ clock = MaxConversations
    /\ Len(Items) = MaxConversations
    /\ Items[MaxConversations].id = MaxConversations
    /\ resp.conversation_id = Some(MaxConversations)

\* the step is a POST /generate whose record was written
Stored == resp'.op = "generate" /\ clock' = clock + 1 /\ resp'.conversation_id # None

\* what a load of the storage file yields after the step
ItemsAfter == load_conversations(storage').items

\* C2: a successful append to a history of 100 records with ids 1..100
\* leaves 100 records: the oldest one is gone, the other 99 keep their
\* order, the new record is last, and every id is the 1-based position.
C2Trim ==
    [][(/\ Stored
        /\ IsHistory(storage)
        /\ Len(Items) = MaxConversations
        /\ DenseIds(Items))
       => (/\ IsHistory(storage')
           /\ Len(ItemsAfter) = MaxConversations
           /\ \A j \in 1..MaxConversations :
                 ItemsAfter[j].timestamp # Items[1].timestamp
           /\ \A j \in 1..(MaxConversations - 1) :
                 ItemsAfter[j] = [Items[j + 1] EXCEPT !.id = j]
           /\ ItemsAfter[MaxConversations].timestamp = clock'
           /\ ItemsAfter[MaxConversations].prompt = resp'.backend_prompt[1]
           /\ DenseIds(ItemsAfter))]_vars

C2Witness ==
    /\ resp.op = "generate"
    /\ resp.conversation_id = Some(MaxConversations)
    /\ clock = 2
    /\ Len(Items) = MaxConversations
    /\ Items[MaxConversations].timestamp = clock
    /\ Items[1].timestamp = 3 - MaxConversations
    /\ Items[1].id = 1

\* the write of the request's record failed
WriteFailed == req.save # "ok" \/ storage.kind = "unreadable"

\* C3: a POST /generate whose backend call returns 200 answers success
\* with the backend text stripped, and its conversation_id is the id the
\* new record carries in the stored history, null exactly when the write
\* failed.
C3Success ==
    (/\ req.op = "generate"
     /\ resp.backend_prompt # None
     /\ req.backend.status = 200
     /\ req.backend.payload = "object")
    => (/\ resp.status = "success"
        /\ resp.code = 200
        /\ resp.generated_text = Some(Strip(ResponseOf(req.backend)))
        /\ (resp.conversation_id = None <=> WriteFailed)
        /\ (~WriteFailed =>
               /\ Items # <<>>
               /\ Items[Len(Items)].timestamp = clock
               /\ Items[Len(Items)].response = resp.generated_text[1]
               /\ resp.conversation_id = Some(Items[Len(Items)].id)))

\* the backend answered with an error status or not at all, or its 200
\* carried no JSON
BackendFailed(reply) ==
    reply.status # 200 \/ reply.payload = "malformed"

\* C4: a POST /generate whose backend call fails answers an error (500)
\* and leaves the stored history as it was: add_conversation is not called.
C4NoStore ==
    [][(req'.op = "generate" /\ BackendFailed(req'.backend))
       => (/\ resp'.status = "error"
           /\ resp'.code = 500
           /\ resp'.conversation_id = None
           /\ storage' = storage
           /\ clock' = clock)]_vars

C4Witness ==
    /\ req.op = "generate"
    /\ req.backend.status = 500
    /\ resp.backend_prompt = Some("Hi")
    /\ resp.status = "error"
    /\ resp.message = "Ollama API error"
    /\ clock = 0
    /\ Len(Items) = MaxConversations

\* the last request only read the storage file
ReadOnly == req.op \in {"health", "get_conversations", "get_conversation"}

\* C5: whatever the storage file holds that is not a history (missing,
\* unreadable, not JSON, JSON that is not a list of records), a load yields
\* the empty list and the handlers answer as for an empty history, never
\* with an uncaught error.
C5EmptyOnCorrupt ==
    (ReadOnly /\ ~IsHistory(storage))
    => (/\ load_conversations(storage) = JsonList(<<>>)
        /\ resp.status # "unhandled"
        /\ resp.total = 0
        /\ resp.conversations = <<>>
        /\ resp.conversation = None)

\* the prompt the request carries, if it carries one
Caller == req.body.value

\* C6 as stated: the prompt sent to the backend, and stored, is the default
\* when the request's prompt is absent or empty, the caller's otherwise.
C6DefaultWhenEmpty ==
    (req.op = "generate" /\ resp.backend_prompt # None)
    => resp.backend_prompt =
           Some(IF ~req.body.key \/ Caller = "" THEN DefaultPrompt ELSE Caller)

\* C6, amended: whenever a prompt is sent to the backend it is the default
\* if the request has no prompt key and the caller's prompt unchanged
\* otherwise, the empty string included; the record written holds the same
\* prompt.
C6DefaultWhenAbsent ==
    (req.op = "generate" /\ resp.backend_prompt # None)
    => (/\ resp.backend_prompt =
               Some(IF ~req.body.key THEN DefaultPrompt ELSE Caller)
        /\ (resp.conversation_id # None =>
               Items[Len(Items)].prompt = resp.backend_prompt[1]))

C6Witness ==
    /\ req.op = "generate"
    /\ req.body.key
    /\ req.body.str
    /\ Caller = ""
    /\ resp.status = "success"
    /\ resp.backend_prompt = Some("")
    /\ resp.conversation_id # None
    /\ Items[Len(Items)].prompt = ""

\* C7: on a history of count records with ids 1..count, GET
\* /conversations/{id} answers 404 for an id outside 1..count and the
\* record at position id, whose id is the one asked for, otherwise; the
\* histories that appends leave, trimmed or not, have such ids.
C7Lookup ==
    /\ IsHistory(storage) => DenseIds(Items)
    /\ (req.op = "get_conversation" /\ IsHistory(storage) /\ DenseIds(Items))
       => IF req.id \in 1..Len(Items)
          THEN /\ resp.code = 200
               /\ resp.status = "success"
               /\ resp.conversation = Some(Items[req.id])
               /\ resp.conversation[1].id = req.id
          ELSE /\ resp.code = 404
               /\ resp.status = "error"
               /\ resp.conversation = None

C7Witness ==
    /\ req.op = "get_conversation"
    /\ req.id = MaxConversations
    /\ clock = 2
    /\ Len(Items) = MaxConversations
    /\ Items[1].timestamp = 3 - MaxConversations
    /\ resp.code = 200
    /\ resp.conversation = Some(Items[MaxConversations])
    /\ resp.conversation[1].timestamp = clock

\* the records of a list, whatever else it holds
RecordsAt(items) == {i \in 1..Len(items) : items[i].kind = "record"}

\* the step appended to a full history and trimmed it
Trimmed ==
    /\ Stored
    /\ Len(Items) = MaxConversations
    /\ Len(ItemsAfter) = MaxConversations

\* C8: a record leaves the stored history only at position 1 of a full
\* history that an append trims; every other record stays, unchanged but
\* for its id.
C8OnlyTrimmed ==
    [][IsHistory(storage) =>
          \A i \in RecordsAt(Items) :
             \/ \E j \in RecordsAt(ItemsAfter) :
                   [ItemsAfter[j] EXCEPT !.id = Items[i].id] = Items[i]
             \/ Trimmed /\ i = 1]_vars

\* C10: on a history of T records, GET /conversations with limit >= 0 and
\* offset >= 0 (20 and 0 when not given) answers total = T and the records
\* at positions offset+1 .. min(offset+limit, T) in stored order, none when
\* offset >= T, and leaves the stored history unchanged.
C10Page ==
    [][(/\ req'.op = "get_conversations"
        /\ storage.kind # "json" \/ IsHistory(storage))
       => LET limit == IF req'.limit = None THEN 20 ELSE req'.limit[1]
              offset == IF req'.offset = None THEN 0 ELSE req'.offset[1]
              T == Len(Items)
              last == Min(offset + limit, T)
          IN  (limit >= 0 /\ offset >= 0)
              => (/\ storage' = storage
                  /\ resp'.code = 200
                  /\ resp'.total = T
                  /\ Len(resp'.conversations) = Max(last - offset, 0)
                  /\ \A k \in 1..Len(resp'.conversations) :
                        resp'.conversations[k] = Items[offset + k]
                  /\ (offset >= T => resp'.conversations = <<>>))]_vars

C10Witness ==
    /\ req.op = "get_conversations"
    /\ req.limit = None
    /\ req.offset = Some(1)
    /\ clock = 2
    /\ resp.total = MaxConversations
    /\ Len(resp.conversations) = 20
    /\ resp.conversations[1] = Items[2]
    /\ resp.conversations[20] = Items[21]

\* the last write of the storage file is p's, and p has not begun another
\* add_conversation since
LastSavedBy(p) ==
    \E i \in 1..Len(sched) :
       /\ sched[i] = <<p, "saved">>
       /\ \A j \in (i + 1)..Len(sched) : sched[j][2] = "load" /\ sched[j][1] # p

\* C9: after load A, load B, save A, save B the stored history is the list
\* B wrote, which is the history both loaded with B's record appended (and
\* trimmed); A's record is not in it, although A was answered success with
\* the conversation id B got.  In every interleaving the stored history is
\* the list of the save that happened last.
C9LastWriterWins ==
    /\ \A p \in Procs : \A q \in Procs \ {p} :
          sched = << <<p, "load">>, <<q, "load">>, <<p, "saved">>, <<q, "saved">> >>
          => (/\ storage = JsonFile(JsonList(conversations[q]))
              /\ Len(conversations[q]) = Len(conversations[p])
              /\ \A k \in 1..(Len(Items) - 1) :
                    Items[k] = conversations[p][k]
              /\ Items[Len(Items)] = conversation[q][1]
              /\ Items[Len(Items)].timestamp = 2
              /\ conversation[p][1].timestamp = 1
              /\ \A k \in 1..Len(Items) : Items[k].timestamp # 1
              /\ result[p].status = "success"
              /\ result[p].conversation_id # None
              /\ result[p].conversation_id = result[q].conversation_id)
    /\ \A p \in Procs :
          LastSavedBy(p) => storage = JsonFile(JsonList(conversations[p]))

C9Witness ==
    /\ sched = << <<"A", "load">>, <<"B", "load">>, <<"A", "saved">>, <<"B", "saved">> >>
    /\ Len(Items) = MaxConversations
    /\ Items[MaxConversations].prompt = "Hi"
    /\ conversation["A"][1].prompt = ""
    /\ result["A"].conversation_id = Some(MaxConversations)
    /\ result["B"].conversation_id = Some(MaxConversations)

====
